---- MODULE Spec2Model ----
(***************************************************************************)
(* FireDM controller (firedm/controller.py): admission control, pending    *)
(* queue, retry / url-refresh loop, scheduled trigger and cancellation.    *)
(*                                                                         *)
(* Download items are heap objects.  download() works on a copy of the     *)
(* object it is given, so the model keeps object identity: d_map maps a    *)
(* uid to an object, the pending queue holds objects, and every download() *)
(* thread owns the object it copied.                                       *)
(***************************************************************************)
EXTENDS Integers, Sequences, FiniteSets, TLC

\* ---------------------------------------------------------------- bounds
NumTemplates == 3          \* playlist entries the user can submit
MaxThreads == 5            \* download() threads the heap has room for
MaxCalls == 2              \* download() calls in one behaviour of Spec
MaxCallsLoops == 2         \* download() calls in one behaviour of SpecLoops
MaxCallsFifo == 5          \* download() calls in one behaviour of SpecFifo
MaxCallsLive == 4          \* download() calls in one behaviour of SpecLive
MaxCallsStore == 3         \* download() calls in one behaviour of SpecStore
MaxNow == 1                \* clock ticks
MaxOps == 1                \* stop / schedule_start calls in one behaviour of SpecLoops
MaxCeiling == 1            \* config.max_concurrent_downloads in Init
MaxRetries == 1            \* config.refresh_url_retries in Init
TemplateSize == 150000     \* total_size of the playlist entries (bytes)
NumViewUids == 2           \* uids the observer receives events for
MaxVal == 1                \* property values carried by observer events: 0 .. MaxVal
MaxEvents == 3             \* observer() calls in one behaviour of SpecView
MaxCallsWatch == 2         \* download() calls in one behaviour of SpecWatch
MaxFired == 2              \* firings of the on-completion action in one behaviour
MaxCallsOps == 3           \* download() calls in one behaviour of SpecOps
MaxGuiCalls == 2           \* calls of the view thread in one behaviour
MaxCallsSched == 3         \* download() calls in one behaviour of SpecSched
MaxCallsDrain == 4         \* download() calls in one behaviour of SpecDrain
MaxCallsLater == 2         \* download() calls in one behaviour of SpecLater
NumNames == 2              \* file names an item can have
NumFolders == 2            \* folders an item can be in
NumQualities == 2          \* stream names of a media item
NumUrls == 2               \* effective urls a probe or an extraction can give
MaxCallsQuit == 2          \* download() calls in one behaviour of SpecQuit
MaxRefreshCalls == 2       \* auto_refresh_url calls in one behaviour of SpecRefresh

\* ------------------------------------------------------------- constants
SimSpeed == 200            \* download_simulator: speed, kb/s

NoUid == 0                 \* no uid
NoObj == 0                 \* None: d_map.get(uid) of an absent uid
NoSched == -1              \* d.sched = None
Absent == -1               \* a key an observer event does not carry (kwargs.get(key, None))

Templates == 1 .. NumTemplates
\* the item _download_ffmpeg builds
FfmpegItem == NumTemplates + 1
BaseUids == 1 .. FfmpegItem
Uids == 1 .. (2 * FfmpegItem)          \* a uid and its renamed variant
Calls == 1 .. MaxThreads
ObjIds == 1 .. (FfmpegItem + MaxThreads)

\* config.Status
Status == {"pending", "scheduled", "downloading", "refreshing_url",
           "completed", "cancelled", "error"}
\* config.Status.active_states
ActiveStates == {"downloading", "refreshing_url"}

VARIABLES
    obj,          \* heap: object id -> download item fields
    d_map,        \* Controller.d_map: uid -> object id (NoObj: absent)
    pending_q,    \* Controller.pending_downloads_q: sequence of object ids
    thr,          \* download() threads, one per call
    ncalls,       \* number of download() calls made so far
    cap,          \* number of download() calls the behaviour may make
    config,       \* config module: max_concurrent_downloads, refresh_url_retries, simulator
    drain,        \* _pending_downloads_handler: position of the loop
    sched,        \* _scheduled_downloads_handler: position, snapshot and current_datetime
    now,          \* datetime.now()
    nops,         \* number of stop / schedule_start calls counted so far
    observer_q,   \* Controller.observer_q: sequence of events (kwargs)
    flush,        \* _observer: position of the loop and the qsize() it read
    view,         \* what the view has been told by _update_view
    sent,         \* what observer() has been given so far
    watchdog,     \* _on_completion_watchdog: position, trigger, the configured action
    post,         \* one run of _post_download
    gui,          \* the thread of the view: its last call and the call it is in
    refreshed     \* the item auto_refresh_url works on, and the answers it got

\* the variables of the download machinery
dvars == <<obj, d_map, pending_q, thr, ncalls, cap, config, drain, sched, now, nops>>

\* the variables of the view update path
ovars == <<observer_q, flush, view, sent>>

\* everything the download machinery leaves alone
others == <<observer_q, flush, view, sent, watchdog, post, gui, refreshed>>

vars == <<obj, d_map, pending_q, thr, ncalls, cap, config, drain, sched, now, nops,
          observer_q, flush, view, sent, watchdog, post, gui, refreshed>>

\* the object a download() call copies its argument into (copy(d), line 1072)
CallObj(c) == FfmpegItem + c

NullItem == [uid |-> NoUid, type |-> "none", status |-> "none", downloaded |-> 0,
             total_size |-> 0, sched |-> NoSched, errors |-> 0]

\* d.type of the playlist entries: a media item, a web page, a plain file
TemplateType(t) == IF t = 1 THEN "video" ELSE IF t = 2 THEN "text/html" ELSE "file"

\* a fresh playlist entry (ObservableDownloadItem / ObservableVideo)
TemplateItem(t) == [uid |-> t, type |-> TemplateType(t), status |-> "cancelled",
                    downloaded |-> 0, total_size |-> TemplateSize, sched |-> NoSched,
                    errors |-> 0]

\* a download() thread: its position, its arguments, and what it has done so far
\*   attempts: engine threads started      refreshes: auto_refresh_url calls
\*   errs: joins that found status error   popups: user-visible failures
\*   checked: result of _pre_download_checks   registered / queued: d_map / queue writes
\*   reports: report_d calls made inside the retry loop
\*   posted: _post_download has run its actions and completion was notified
IdleThread == [pc |-> "idle", src |-> NoObj, silent |-> FALSE, later |-> FALSE, n |-> 0,
               by |-> "none", parent |-> 0,
               attempts |-> 0, refreshes |-> 0, errs |-> 0, popups |-> 0,
               checked |-> "none", registered |-> FALSE, queued |-> FALSE,
               reports |-> 0, posted |-> FALSE]

\* d_map.values()
DMapValues == {d_map[u] : u \in {v \in Uids : d_map[v] # NoObj}}

\* len([d for d in self.d_map.values() if d.status in Status.active_states])
ActiveDownloads == Cardinality({o \in DMapValues : obj[o].status \in ActiveStates})

\* values of the keys of an observer event
Vals == 0 .. MaxVal

\* the keys of an observer event besides uid: properties of a download item
Fields == {"downloaded", "total_size"}

ViewUids == 1 .. NumViewUids

\* an event that carries no key
NoKw == [f \in Fields |-> Absent]

\* observer_q is empty, buffer = {}; the view has been told nothing
InitObserver ==
    /\ observer_q = <<>>
    /\ flush = [pc |-> "size", n |-> 0]
    /\ view = [emitted |-> [u \in ViewUids |-> NoKw],
               extra |-> [u \in ViewUids |-> FALSE],
               updates |-> [u \in ViewUids |-> 0],
               drained |-> [u \in ViewUids |-> 0],
               total_speed |-> 0,
               shown |-> [u \in ViewUids |-> NoKw],
               order |-> <<>>]
    /\ sent = [count |-> 0, overwrites |-> 0, last |-> [u \in ViewUids |-> NoKw]]

\* trigger = False; no on-completion action is configured
InitWatchdog ==
    watchdog = [pc |-> "any", trigger |-> FALSE, action |-> FALSE, fired |-> 0]

\* _post_download is not running
InitPost ==
    post = [pc |-> "idle", i |-> 0, status |-> "none", enabled |-> {},
            test_mode |-> FALSE, ran |-> {}]

\* the view has called nothing yet
InitGui ==
    gui = [pc |-> "idle", d |-> NoObj, n |-> 0, op |-> "none", uid |-> NoUid]

\* auto_refresh_url has not been called
InitRefreshed ==
    refreshed = [n |-> 0]

\* the state after Controller.__init__ (ignore_dlist: an empty d_map)
InitWith(calls, simulator) ==
    /\ obj = [o \in ObjIds |-> IF o \in 1 .. FfmpegItem THEN TemplateItem(o) ELSE NullItem]
    /\ d_map = [u \in Uids |-> NoObj]
    /\ pending_q = <<>>
    /\ thr = [c \in Calls |-> IdleThread]
    /\ ncalls = 0
    /\ cap = calls
    /\ config \in [max_concurrent_downloads : 1 .. MaxCeiling,
                   refresh_url_retries : {MaxRetries},
                   simulator : {simulator},
                   shutdown : {FALSE}]
    /\ drain = "count"
    /\ sched = [pc |-> "scan", list |-> {}, current |-> 0]
    /\ now = 0
    /\ nops = 0
    /\ InitObserver
    /\ InitWatchdog
    /\ InitPost
    /\ InitGui
    /\ InitRefreshed

Init == InitWith(MaxCalls, FALSE)

\* ------------------------------------------------------------ helpers
Min(a, b) == IF a < b THEN a ELSE b

\* download_simulator: speed // 2 * 1024 bytes per iteration
SimStep == (SimSpeed \div 2) * 1024

\* rename(d): auto_rename gives a name that is not taken, calculate_uid a new uid
RenameUid(u) == u + FfmpegItem

\* what the environment answers during one run of _pre_download_checks
\*   fail:   the first failing environment check, or "none"
\*           ("no_ffmpeg", "get_ffmpeg": ffmpeg is missing; with "get_ffmpeg"
\*           the user answers Download)
\*   exists: "no" when the target file is absent, else the collision answer
\*   warn:   "Yes" when the item is resumable or the user accepts the warning
EnvInputs ==
    [fail : {"unsupported", "no_ffmpeg", "get_ffmpeg", "bad_folder", "empty_name"},
     exists : {"no"}, warn : {"Yes"}]
    \cup [fail : {"none"}, exists : {"no", "Rename", "Overwrite", "Abort"},
          warn : {"Yes", "No"}]

\* the answers of an environment in which nothing is missing and no file exists
EnvPlain ==
    [fail : {"none"}, exists : {"no"}, warn : {"Yes"}]

MediaTypes == {"video", "audio", "key"}

\* _pre_download_checks without the search of d_map (lines 1023-1040 dropped)
PreDownloadChecksFresh(d, silent, env) ==
    IF (d.type = "text/html" /\ silent) \/ d.status \in ActiveStates
       \/ env.fail # "none" \/ env.exists # "no" \/ (~silent /\ env.warn # "Yes")
    THEN [ok |-> FALSE, capped |-> FALSE, d |-> d]
    ELSE [ok |-> TRUE, capped |-> FALSE, d |-> d]

\* _pre_download_checks(d, silent): result [ok, capped, d]; capped marks a
\* rename that leaves the modelled uid range
RECURSIVE PreDownloadChecks(_, _, _)
PreDownloadChecks(d, silent, env) ==
    LET fail == [ok |-> FALSE, capped |-> FALSE, d |-> d]
        capped == [ok |-> FALSE, capped |-> TRUE, d |-> d]
        renamed == [d EXCEPT !.uid = RenameUid(d.uid)]
        \* after a rename the new name is not on disk; the other answers stay
        env2 == [env EXCEPT !.exists = "no"]
        action == IF silent THEN "Rename" ELSE env.exists
    IN  IF d.type = "text/html" /\ silent THEN fail
        ELSE IF d.status \in ActiveStates THEN fail
        ELSE IF env.fail = "unsupported" THEN fail
        ELSE IF env.fail \in {"no_ffmpeg", "get_ffmpeg"} /\ d.type \in MediaTypes THEN fail
        ELSE IF env.fail \in {"bad_folder", "empty_name"} THEN fail
        ELSE IF env.exists # "no" /\ action = "Abort" THEN fail
        ELSE IF env.exists # "no" /\ action = "Rename"
             THEN IF RenameUid(d.uid) \in Uids
                  THEN PreDownloadChecks(renamed, silent, env2) ELSE capped
        ELSE IF d_map[d.uid] # NoObj /\ d.total_size # obj[d_map[d.uid]].total_size
             THEN IF RenameUid(d.uid) \in Uids
                  THEN PreDownloadChecks(renamed, silent, env2) ELSE capped
        ELSE LET d2 == IF d_map[d.uid] # NoObj
                       THEN [d EXCEPT !.downloaded = obj[d_map[d.uid]].downloaded]
                       ELSE d
             IN  IF ~silent /\ env.warn # "Yes" THEN [fail EXCEPT !.d = d2]
                 ELSE [ok |-> TRUE, capped |-> FALSE, d |-> d2]

\* ------------------------------------------------- download(): the call
\* @threaded download(d, silent, download_later): a new thread for the call
Spawn(src, silent, later, by, parent) ==
    /\ ncalls < cap
    /\ ncalls' = ncalls + 1
    /\ thr' = [thr EXCEPT ![ncalls + 1] =
                  [IdleThread EXCEPT !.pc = "copy", !.src = src, !.silent = silent,
                                     !.later = later, !.by = by, !.parent = parent]]

\* the view calls download(d) for a playlist entry
UserDownload(t, later) ==
    /\ Spawn(t, FALSE, later, "user", 0)
    /\ UNCHANGED <<obj, d_map, pending_q, cap, config, drain, sched, now, nops>>
    /\ UNCHANGED others

\* the view calls download(uid=u): d = get_d(uid) = d_map.get(uid)
UserResume(u) ==
    /\ d_map[u] # NoObj
    /\ Spawn(d_map[u], FALSE, FALSE, "user", 0)
    /\ UNCHANGED <<obj, d_map, pending_q, cap, config, drain, sched, now, nops>>
    /\ UNCHANGED others

\* d = copy(d)
Copy(c) ==
    /\ thr[c].pc = "copy"
    /\ obj' = [obj EXCEPT ![CallObj(c)] = obj[thr[c].src]]
    /\ thr' = [thr EXCEPT ![c].pc = "checks"]
    /\ UNCHANGED <<d_map, pending_q, ncalls, cap, config, drain, sched, now, nops>>
    /\ UNCHANGED others

\* _pre_download_checks reaches self._download_ffmpeg(): ffmpeg is missing for
\* a media item, the call is not silent and the user answers Download
GetsFfmpeg(d, silent, env) ==
    /\ env.fail = "get_ffmpeg"
    /\ d.type \in MediaTypes
    /\ ~silent
    /\ d.status \notin ActiveStates

\* Checks with the result of _pre_download_checks ignored (if pre_checks: dropped)
ChecksIgnored(c, E) ==
    /\ thr[c].pc = "checks"
    /\ \E env \in E :
          LET r == PreDownloadChecks(obj[CallObj(c)], thr[c].silent, env)
          IN  /\ ~r.capped
              /\ obj' = [obj EXCEPT ![CallObj(c)] = r.d]
              /\ thr' = [thr EXCEPT ![c].pc = "register",
                                    ![c].checked = IF r.ok THEN "ok" ELSE "fail"]
    /\ UNCHANGED <<d_map, pending_q, ncalls, cap, config, drain, sched, now, nops>>
    /\ UNCHANGED others

\* pre_checks = self._pre_download_checks(d, silent=silent), with env \in E the
\* environment's answers; _download_ffmpeg calls self.download(d, silent=True)
Checks(c, E) ==
    /\ thr[c].pc = "checks"
    /\ \E env \in E :
          LET r == PreDownloadChecks(obj[CallObj(c)], thr[c].silent, env)
              t == [thr EXCEPT ![c].pc = IF r.ok THEN "register" ELSE "done",
                               ![c].checked = IF r.ok THEN "ok" ELSE "fail"]
          IN  /\ ~r.capped
              /\ obj' = [obj EXCEPT ![CallObj(c)] = r.d]
              /\ IF GetsFfmpeg(obj[CallObj(c)], thr[c].silent, env)
                 THEN /\ ncalls < cap
                      /\ ncalls' = ncalls + 1
                      /\ thr' = [t EXCEPT ![ncalls + 1] =
                                   [IdleThread EXCEPT !.pc = "copy", !.src = FfmpegItem,
                                                      !.silent = TRUE, !.by = "ffmpeg",
                                                      !.parent = c]]
                 ELSE /\ thr' = t
                      /\ UNCHANGED ncalls
    /\ UNCHANGED <<d_map, pending_q, cap, config, drain, sched, now, nops>>
    /\ UNCHANGED others

\* Register with download_later ignored (if not download_later: dropped)
RegisterNow(c) ==
    /\ thr[c].pc = "register"
    /\ d_map' = [d_map EXCEPT ![obj[CallObj(c)].uid] = CallObj(c)]
    /\ thr' = [thr EXCEPT ![c].pc = "admit", ![c].registered = TRUE]
    /\ UNCHANGED <<obj, pending_q, ncalls, cap, config, drain, sched, now, nops>>
    /\ UNCHANGED others

\* self.d_map[d.uid] = d; with download_later the call goes on to report_d
Register(c) ==
    /\ thr[c].pc = "register"
    /\ d_map' = [d_map EXCEPT ![obj[CallObj(c)].uid] = CallObj(c)]
    /\ thr' = [thr EXCEPT ![c].pc = IF thr[c].later THEN "report" ELSE "admit",
                          ![c].registered = TRUE]
    /\ UNCHANGED <<obj, pending_q, ncalls, cap, config, drain, sched, now, nops>>
    /\ UNCHANGED others

\* count the active downloads: queue the job as pending, or enter the retry
\* loop and start the engine thread of the first attempt
Admit(c) ==
    /\ thr[c].pc = "admit"
    /\ IF ActiveDownloads >= config.max_concurrent_downloads
       THEN /\ obj' = [obj EXCEPT ![CallObj(c)].status = "pending"]
            /\ pending_q' = Append(pending_q, CallObj(c))
            /\ thr' = [thr EXCEPT ![c].pc = "done", ![c].queued = TRUE]
       ELSE /\ thr' = [thr EXCEPT ![c].pc = "begin", ![c].n = 0, ![c].attempts = 1]
            /\ UNCHANGED <<obj, pending_q>>
    /\ UNCHANGED <<d_map, ncalls, cap, config, drain, sched, now, nops>>
    /\ UNCHANGED others

\* ------------------------------------------------------------ the engine
\* download_simulator: d.status = Status.downloading; restart a finished item
SimBegin(c) ==
    /\ thr[c].pc = "begin" /\ config.simulator
    /\ LET d == obj[CallObj(c)]
       IN obj' = [obj EXCEPT ![CallObj(c)] =
                    [d EXCEPT !.status = "downloading",
                              !.downloaded = IF d.downloaded >= d.total_size THEN 0
                                             ELSE d.downloaded]]
    /\ thr' = [thr EXCEPT ![c].pc = "sim_add"]
    /\ UNCHANGED <<d_map, pending_q, ncalls, cap, config, drain, sched, now, nops>>
    /\ UNCHANGED others

\* time.sleep(1 / 2); d.downloaded += speed // 2 * 1024
SimAdd(c) ==
    /\ thr[c].pc = "sim_add"
    /\ obj' = [obj EXCEPT ![CallObj(c)].downloaded = @ + SimStep]
    /\ thr' = [thr EXCEPT ![c].pc = "sim_test"]
    /\ UNCHANGED <<d_map, pending_q, ncalls, cap, config, drain, sched, now, nops>>
    /\ UNCHANGED others

\* if d.downloaded >= d.total_size: d.status = completed ...
\* if d.status == Status.cancelled: break
SimTest(c) ==
    /\ thr[c].pc = "sim_test"
    /\ LET d == obj[CallObj(c)]
       IN IF d.downloaded >= d.total_size
          THEN /\ obj' = [obj EXCEPT ![CallObj(c)].status = "completed"]
               /\ thr' = [thr EXCEPT ![c].pc = "sim_clamp"]
          ELSE /\ thr' = [thr EXCEPT ![c].pc = IF d.status = "cancelled"
                                               THEN "joined" ELSE "sim_add"]
               /\ UNCHANGED obj
    /\ UNCHANGED <<d_map, pending_q, ncalls, cap, config, drain, sched, now, nops>>
    /\ UNCHANGED others

\* d.downloaded = d.total_size; break
SimClamp(c) ==
    /\ thr[c].pc = "sim_clamp"
    /\ obj' = [obj EXCEPT ![CallObj(c)].downloaded = obj[CallObj(c)].total_size]
    /\ thr' = [thr EXCEPT ![c].pc = "joined"]
    /\ UNCHANGED <<d_map, pending_q, ncalls, cap, config, drain, sched, now, nops>>
    /\ UNCHANGED others

\* brain(d): the transfer engine sets the status to downloading
BrainBegin(c) ==
    /\ thr[c].pc = "begin" /\ ~config.simulator
    /\ obj' = [obj EXCEPT ![CallObj(c)].status = "downloading"]
    /\ thr' = [thr EXCEPT ![c].pc = "brain_run"]
    /\ UNCHANGED <<d_map, pending_q, ncalls, cap, config, drain, sched, now, nops>>
    /\ UNCHANGED others

\* brain(d): one checkpoint of the transfer engine: it stops when the status
\* is no longer downloading, else it transfers a chunk or fails, as the network
\* (outcomes) allows
BrainStep(c, outcomes) ==
    /\ thr[c].pc = "brain_run"
    /\ LET d == obj[CallObj(c)]
           got == Min(d.downloaded + SimStep, d.total_size)
       IN IF d.status # "downloading"
          THEN /\ thr' = [thr EXCEPT ![c].pc = "joined"]
               /\ UNCHANGED obj
          ELSE \/ /\ "chunk" \in outcomes
                  /\ obj' = [obj EXCEPT ![CallObj(c)] =
                               [d EXCEPT !.downloaded = got,
                                         !.status = IF got >= d.total_size
                                                    THEN "completed" ELSE d.status]]
                  /\ thr' = [thr EXCEPT ![c].pc = IF got >= d.total_size
                                                  THEN "joined" ELSE "brain_run"]
               \/ /\ "error" \in outcomes
                  /\ obj' = [obj EXCEPT ![CallObj(c)].status = "error",
                                        ![CallObj(c)].errors = 1]
                  /\ thr' = [thr EXCEPT ![c].pc = "joined"]
    /\ UNCHANGED <<d_map, pending_q, ncalls, cap, config, drain, sched, now, nops>>
    /\ UNCHANGED others

\* --------------------------------------------------- the retry loop
\* Joined with one iteration too many (range(config.refresh_url_retries + 2))
JoinedOnceMore(c) ==
    /\ thr[c].pc = "joined"
    /\ LET d == obj[CallObj(c)]
       IN IF d.status # "error"
          THEN /\ thr' = [thr EXCEPT ![c].pc = "report"]
               /\ UNCHANGED obj
          ELSE IF thr[c].n >= config.refresh_url_retries + 1
          THEN /\ thr' = [thr EXCEPT ![c].pc = "report", ![c].errs = @ + 1,
                                     ![c].popups = @ + (IF thr[c].silent THEN 0 ELSE 1)]
               /\ UNCHANGED obj
          ELSE /\ obj' = [obj EXCEPT ![CallObj(c)].status = "refreshing_url",
                                     ![CallObj(c)].errors = 0]
               /\ thr' = [thr EXCEPT ![c].pc = "refresh", ![c].errs = @ + 1]
    /\ UNCHANGED <<d_map, pending_q, ncalls, cap, config, drain, sched, now, nops>>
    /\ UNCHANGED others

\* t.join() returned: lines 1111-1121
Joined(c) ==
    /\ thr[c].pc = "joined"
    /\ LET d == obj[CallObj(c)]
       IN IF d.status # "error"
          THEN /\ thr' = [thr EXCEPT ![c].pc = "report"]
               /\ UNCHANGED obj
          ELSE IF thr[c].n >= config.refresh_url_retries
          THEN /\ thr' = [thr EXCEPT ![c].pc = "report", ![c].errs = @ + 1,
                                     ![c].popups = @ + (IF thr[c].silent THEN 0 ELSE 1)]
               /\ UNCHANGED obj
          ELSE /\ obj' = [obj EXCEPT ![CallObj(c)].status = "refreshing_url",
                                     ![CallObj(c)].errors = 0]
               /\ thr' = [thr EXCEPT ![c].pc = "refresh", ![c].errs = @ + 1]
    /\ UNCHANGED <<d_map, pending_q, ncalls, cap, config, drain, sched, now, nops>>
    /\ UNCHANGED others

\* the retry loop going on to the next attempt at once, without report_d and
\* without auto_refresh_url
RefreshSkipped(c) ==
    /\ thr[c].pc = "refresh"
    /\ thr' = [thr EXCEPT ![c].pc = "begin", ![c].n = @ + 1,
                          ![c].attempts = @ + 1, ![c].refreshes = @ + 1]
    /\ UNCHANGED <<obj, d_map, pending_q, ncalls, cap, config, drain, sched, now, nops>>
    /\ UNCHANGED others

\* self.report_d(d): a thread of its own notifies the view;
\* self.auto_refresh_url(d) is called
ReportRefresh(c) ==
    /\ thr[c].pc = "refresh"
    /\ thr' = [thr EXCEPT ![c].pc = "auto_refresh", ![c].reports = @ + 1]
    /\ UNCHANGED <<obj, d_map, pending_q, ncalls, cap, config, drain, sched, now, nops>>
    /\ UNCHANGED others

\* self.auto_refresh_url(d) returned; the next iteration of the for loop
\* starts the engine thread again
Refresh(c) ==
    /\ thr[c].pc = "auto_refresh"
    /\ thr' = [thr EXCEPT ![c].pc = "begin", ![c].n = @ + 1,
                          ![c].attempts = @ + 1, ![c].refreshes = @ + 1]
    /\ UNCHANGED <<obj, d_map, pending_q, ncalls, cap, config, drain, sched, now, nops>>
    /\ UNCHANGED others

\* self.report_d(d); self._post_download(d); completion notification
Report(c) ==
    /\ thr[c].pc = "report"
    /\ thr' = [thr EXCEPT ![c].pc = "done",
                          ![c].posted = (obj[CallObj(c)].status = "completed")]
    /\ UNCHANGED <<obj, d_map, pending_q, ncalls, cap, config, drain, sched, now, nops>>
    /\ UNCHANGED others

\* ------------------------------------------------- view-driven operations
\* stop_download without the test of the status (if d: d.status = cancelled)
StopDownloadAnyStatus(u) ==
    /\ d_map[u] # NoObj
    /\ obj' = [obj EXCEPT ![d_map[u]].status = "cancelled"]
    /\ UNCHANGED <<d_map, pending_q, thr, ncalls, cap, config, drain, sched, now>>
    /\ UNCHANGED <<observer_q, flush, view, sent, watchdog, post, refreshed>>

\* stop_download(uid)
StopDownload(u) ==
    /\ d_map[u] # NoObj
    /\ obj[d_map[u]].status \in ActiveStates \cup {"pending"}
    /\ obj' = [obj EXCEPT ![d_map[u]].status = "cancelled"]
    /\ UNCHANGED <<d_map, pending_q, thr, ncalls, cap, config, drain, sched, now>>
    /\ UNCHANGED <<observer_q, flush, view, sent, watchdog, post, refreshed>>

\* stop_download(uid) returns without a change: the uid is not in d_map, or the
\* status of the job is neither active nor pending
StopDownloadReturns(u) ==
    /\ ~(d_map[u] # NoObj /\ obj[d_map[u]].status \in ActiveStates \cup {"pending"})
    /\ UNCHANGED <<obj, d_map, pending_q, thr, ncalls, cap, config, drain, sched, now>>
    /\ UNCHANGED <<observer_q, flush, view, sent, watchdog, post, refreshed>>

\* the thread of the view calls op(uid): it makes a call when the one before
\* has returned
Called(op, u) ==
    /\ gui.pc = "idle"
    /\ gui.n < MaxGuiCalls
    /\ gui' = [gui EXCEPT !.n = @ + 1, !.op = op, !.uid = u]

\* delete that leaves the status of the job as it is (d.status = cancelled dropped)
DeleteKeepsStatus(u) ==
    /\ d_map[u] # NoObj
    /\ d_map' = [d_map EXCEPT ![u] = NoObj]
    /\ UNCHANGED <<obj, pending_q, thr, ncalls, cap, config, drain, sched, now>>
    /\ UNCHANGED <<observer_q, flush, view, sent, watchdog, post, refreshed>>

\* delete(uid): d = self.d_map.pop(uid); d.status = Status.cancelled
Delete(u) ==
    /\ d_map[u] # NoObj
    /\ d_map' = [d_map EXCEPT ![u] = NoObj]
    /\ obj' = [obj EXCEPT ![d_map[u]].status = "cancelled"]
    /\ UNCHANGED <<pending_q, thr, ncalls, cap, config, drain, sched, now>>
    /\ UNCHANGED <<observer_q, flush, view, sent, watchdog, post, refreshed>>

\* schedule_start(uid, target_date): refused when target_date < datetime.now()
ScheduleStart(u, target) ==
    /\ d_map[u] # NoObj
    /\ ~(target < now)
    /\ obj' = [obj EXCEPT ![d_map[u]].sched = target, ![d_map[u]].status = "scheduled"]
    /\ UNCHANGED <<d_map, pending_q, thr, ncalls, cap, config, drain, sched, now>>
    /\ UNCHANGED <<observer_q, flush, view, sent, watchdog, post, refreshed>>

\* schedule_cancel(uid)
ScheduleCancel(u) ==
    /\ d_map[u] # NoObj
    /\ obj[d_map[u]].status = "scheduled"
    /\ obj' = [obj EXCEPT ![d_map[u]].status = "cancelled", ![d_map[u]].sched = NoSched]
    /\ UNCHANGED <<d_map, pending_q, thr, ncalls, cap, config, drain, sched, now>>
    /\ UNCHANGED <<observer_q, flush, view, sent, watchdog, post, refreshed>>

\* schedule_start(uid, target_date) up to d.sched = target_date.isoformat():
\* it returns when get_d finds nothing or the date is in the past
ScheduleStartSched(u, target) ==
    /\ gui.pc = "idle"
    /\ gui.n < MaxGuiCalls
    /\ IF d_map[u] = NoObj \/ target < now
       THEN /\ gui' = [gui EXCEPT !.n = @ + 1, !.op = "schedule_start", !.uid = u]
            /\ UNCHANGED obj
       ELSE /\ gui' = [pc |-> "start_status", d |-> d_map[u], n |-> gui.n + 1,
                       op |-> "schedule_start", uid |-> u]
            /\ obj' = [obj EXCEPT ![d_map[u]].sched = target]
    /\ UNCHANGED <<d_map, pending_q, thr, ncalls, cap, config, drain, sched, now, nops>>
    /\ UNCHANGED <<observer_q, flush, view, sent, watchdog, post, refreshed>>

\* schedule_start: d.status = Status.scheduled
ScheduleStartStatus ==
    /\ gui.pc = "start_status"
    /\ obj' = [obj EXCEPT ![gui.d].status = "scheduled"]
    /\ gui' = [gui EXCEPT !.pc = "idle"]
    /\ UNCHANGED <<d_map, pending_q, thr, ncalls, cap, config, drain, sched, now, nops>>
    /\ UNCHANGED <<observer_q, flush, view, sent, watchdog, post, refreshed>>

\* schedule_cancel with the two assignments in the other order: d.sched = None
\* before d.status = Status.cancelled
ScheduleCancelSchedFirst(u) ==
    /\ gui.pc = "idle"
    /\ gui.n < MaxGuiCalls
    /\ IF d_map[u] = NoObj \/ obj[d_map[u]].status # "scheduled"
       THEN /\ gui' = [gui EXCEPT !.n = @ + 1, !.op = "schedule_cancel", !.uid = u]
            /\ UNCHANGED obj
       ELSE /\ gui' = [pc |-> "cancel_sched", d |-> d_map[u], n |-> gui.n + 1,
                       op |-> "schedule_cancel", uid |-> u]
            /\ obj' = [obj EXCEPT ![d_map[u]].sched = NoSched]
    /\ UNCHANGED <<d_map, pending_q, thr, ncalls, cap, config, drain, sched, now, nops>>
    /\ UNCHANGED <<observer_q, flush, view, sent, watchdog, post, refreshed>>

\* schedule_cancel(uid) up to d.status = Status.cancelled: it returns when get_d
\* finds nothing or the status is not scheduled
ScheduleCancelStatus(u) ==
    /\ gui.pc = "idle"
    /\ gui.n < MaxGuiCalls
    /\ IF d_map[u] = NoObj \/ obj[d_map[u]].status # "scheduled"
       THEN /\ gui' = [gui EXCEPT !.n = @ + 1, !.op = "schedule_cancel", !.uid = u]
            /\ UNCHANGED obj
       ELSE /\ gui' = [pc |-> "cancel_sched", d |-> d_map[u], n |-> gui.n + 1,
                       op |-> "schedule_cancel", uid |-> u]
            /\ obj' = [obj EXCEPT ![d_map[u]].status = "cancelled"]
    /\ UNCHANGED <<d_map, pending_q, thr, ncalls, cap, config, drain, sched, now, nops>>
    /\ UNCHANGED <<observer_q, flush, view, sent, watchdog, post, refreshed>>

\* schedule_cancel: d.sched = None
ScheduleCancelSched ==
    /\ gui.pc = "cancel_sched"
    /\ obj' = [obj EXCEPT ![gui.d].sched = NoSched]
    /\ gui' = [gui EXCEPT !.pc = "idle"]
    /\ UNCHANGED <<d_map, pending_q, thr, ncalls, cap, config, drain, sched, now, nops>>
    /\ UNCHANGED <<observer_q, flush, view, sent, watchdog, post, refreshed>>

\* the wall clock advances
Tick ==
    /\ now < MaxNow
    /\ now' = now + 1
    /\ UNCHANGED <<obj, d_map, pending_q, thr, ncalls, cap, config, drain, sched, nops>>
    /\ UNCHANGED others

\* ------------------------------------------------------- background loops
\* _pending_downloads_handler: active_downloads < config.max_concurrent_downloads
DrainCount ==
    /\ drain = "count"
    /\ ActiveDownloads < config.max_concurrent_downloads
    /\ drain' = "get"
    /\ UNCHANGED <<obj, d_map, pending_q, thr, ncalls, cap, config, sched, now, nops>>
    /\ UNCHANGED others

\* DrainGet without the test of the status (if d.status == Status.pending: dropped)
DrainGetAnyStatus ==
    /\ drain = "get"
    /\ pending_q # <<>>
    /\ pending_q' = Tail(pending_q)
    /\ drain' = "count"
    /\ Spawn(Head(pending_q), TRUE, FALSE, "drain", 0)
    /\ UNCHANGED <<obj, d_map, cap, config, sched, now, nops>>
    /\ UNCHANGED others

\* d = self.pending_downloads_q.get(); if d.status == Status.pending:
\* self.download(d, silent=True); time.sleep(3)
DrainGet ==
    /\ drain = "get"
    /\ pending_q # <<>>
    /\ pending_q' = Tail(pending_q)
    /\ drain' = "count"
    /\ IF obj[Head(pending_q)].status = "pending"
       THEN Spawn(Head(pending_q), TRUE, FALSE, "drain", 0)
       ELSE UNCHANGED <<thr, ncalls>>
    /\ UNCHANGED <<obj, d_map, cap, config, sched, now, nops>>
    /\ UNCHANGED others

\* _scheduled_downloads_handler: sched_downloads = [...]; current_datetime = now()
SchedScan ==
    /\ sched.pc = "scan"
    /\ LET found == {o \in DMapValues : obj[o].status = "scheduled"}
       IN /\ found # {}
          /\ sched' = [pc |-> "fire", list |-> found, current |-> now]
    /\ UNCHANGED <<obj, d_map, pending_q, thr, ncalls, cap, config, drain, now, nops>>
    /\ UNCHANGED others

\* one iteration of: for d in sched_downloads: if d.sched and ... <= current_datetime
SchedFire ==
    /\ sched.pc = "fire"
    /\ \E o \in sched.list :
          /\ LET rest == sched.list \ {o}
             IN sched' = IF rest = {} THEN [pc |-> "scan", list |-> {}, current |-> 0]
                         ELSE [sched EXCEPT !.list = rest]
          /\ IF obj[o].sched # NoSched /\ obj[o].sched <= sched.current
             THEN Spawn(o, TRUE, FALSE, "sched", 0)
             ELSE UNCHANGED <<thr, ncalls>>
    /\ UNCHANGED <<obj, d_map, pending_q, cap, config, drain, now, nops>>
    /\ UNCHANGED others

\* ------------------------------------------------------- view update path
\* the events observer() can be given: kwargs with or without a uid
Events == [uid : ViewUids \cup {NoUid}, kw : [Fields -> Vals \cup {Absent}]]

\* a merge in which the keys already in b win (setdefault for every key)
MergeKeepFirst(b, e) == [f \in Fields |-> IF b[f] # Absent THEN b[f] ELSE e[f]]

\* dict.update: the keys of e overwrite those of b, the other keys of b stay
Merge(b, e) == [f \in Fields |-> IF e[f] # Absent THEN e[f] ELSE b[f]]

\* the keys of buffer after the events of batch: the truthy uids
Keys(batch) == {batch[i].uid : i \in 1 .. Len(batch)} \ {NoUid}

\* buffer[u] after buffer.setdefault(uid, item).update(**item) for each event
RECURSIVE Buffered(_, _)
Buffered(batch, u) ==
    IF batch = <<>> THEN NoKw
    ELSE LET b == Buffered(SubSeq(batch, 1, Len(batch) - 1), u)
             e == batch[Len(batch)]
         IN  IF e.uid = u THEN Merge(b, e.kw) ELSE b

\* the uids of batch in increasing order, whatever the order of the events
RECURSIVE ByUid(_)
ByUid(batch) ==
    IF Keys(batch) = {} THEN <<>>
    ELSE LET u == CHOOSE v \in Keys(batch) : \A w \in Keys(batch) : v <= w
         IN  <<u>> \o ByUid(SelectSeq(batch, LAMBDA e : e.uid # u))

\* buffer.values() after the events of batch: a dict keeps its keys in the
\* order in which they were inserted, and setdefault inserts a uid when it is
\* first seen
RECURSIVE FirstSeen(_)
FirstSeen(batch) ==
    IF batch = <<>> THEN <<>>
    ELSE LET r == FirstSeen(SubSeq(batch, 1, Len(batch) - 1))
             e == batch[Len(batch)]
         IN  IF e.uid = NoUid \/ \E i \in 1 .. Len(r) : r[i] = e.uid THEN r
             ELSE Append(r, e.uid)

\* observer(**kwargs): self.observer_q.put(kwargs); sent keeps the number of
\* calls, the latest value given for each key, and the number of events that
\* changed a value given before
Observer(e) ==
    /\ sent.count < MaxEvents
    /\ observer_q' = Append(observer_q, e)
    /\ sent' = IF e.uid = NoUid THEN [sent EXCEPT !.count = @ + 1]
               ELSE [count |-> sent.count + 1,
                     overwrites |-> sent.overwrites +
                        (IF \E f \in Fields : /\ e.kw[f] # Absent
                                               /\ sent.last[e.uid][f] # Absent
                                               /\ sent.last[e.uid][f] # e.kw[f]
                         THEN 1 ELSE 0),
                     last |-> [sent.last EXCEPT ![e.uid] =
                                 [f \in Fields |-> IF e.kw[f] # Absent THEN e.kw[f]
                                                   ELSE sent.last[e.uid][f]]]]
    /\ UNCHANGED <<flush, view, watchdog, post, gui, refreshed>>
    /\ UNCHANGED dvars

\* _observer: range(self.observer_q.qsize())
FlushSize ==
    /\ flush.pc = "size"
    /\ flush' = [pc |-> "drain", n |-> Len(observer_q)]
    /\ UNCHANGED <<observer_q, view, sent, watchdog, post, gui, refreshed>>
    /\ UNCHANGED dvars

\* _observer without the buffer: _update_view is called for every event
FlushDrainUnbuffered ==
    /\ flush.pc = "drain"
    /\ LET batch == SubSeq(observer_q, 1, flush.n)
           count(u) == Cardinality({i \in 1 .. flush.n : batch[i].uid = u})
       IN  /\ observer_q' = SubSeq(observer_q, flush.n + 1, Len(observer_q))
           /\ view' = [emitted |-> [u \in ViewUids |-> Buffered(batch, u)],
                       extra |-> [u \in ViewUids |-> FALSE],
                       updates |-> [u \in ViewUids |-> count(u)],
                       drained |-> [u \in ViewUids |-> count(u)],
                       total_speed |-> flush.n,
                       shown |-> [u \in ViewUids |->
                                    Merge(view.shown[u], Buffered(batch, u))],
                       order |-> FirstSeen(batch)]
    /\ flush' = [pc |-> "size", n |-> 0]
    /\ UNCHANGED <<sent, watchdog, post, gui, refreshed>>
    /\ UNCHANGED dvars

\* _observer emptying the queue: the events that came after qsize() are dropped
FlushDrainLossy ==
    /\ flush.pc = "drain"
    /\ LET batch == SubSeq(observer_q, 1, flush.n)
           keys == Keys(batch)
       IN  /\ observer_q' = <<>>
           /\ view' = [emitted |-> [u \in ViewUids |-> Buffered(batch, u)],
                       extra |-> [u \in ViewUids |-> FALSE],
                       updates |-> [u \in ViewUids |-> IF u \in keys THEN 1 ELSE 0],
                       drained |-> [u \in ViewUids |->
                                      Cardinality({i \in 1 .. flush.n : batch[i].uid = u})],
                       total_speed |-> Cardinality(keys),
                       shown |-> [u \in ViewUids |->
                                    Merge(view.shown[u], Buffered(batch, u))],
                       order |-> FirstSeen(batch)]
    /\ flush' = [pc |-> "size", n |-> 0]
    /\ UNCHANGED <<sent, watchdog, post, gui, refreshed>>
    /\ UNCHANGED dvars

\* _observer without buffer.clear(): the values of earlier windows stay in
\* buffer and are emitted again
FlushDrainKeepsBuffer ==
    /\ flush.pc = "drain"
    /\ LET batch == SubSeq(observer_q, 1, flush.n)
           buffer == [u \in ViewUids |-> Merge(view.shown[u], Buffered(batch, u))]
           keys == {u \in ViewUids : buffer[u] # NoKw} \cup Keys(batch)
       IN  /\ observer_q' = SubSeq(observer_q, flush.n + 1, Len(observer_q))
           /\ view' = [emitted |-> buffer,
                       extra |-> [u \in ViewUids |->
                                    /\ u \in keys
                                    /\ d_map[u] # NoObj
                                    /\ buffer[u]["downloaded"] \notin {Absent, 0}],
                       updates |-> [u \in ViewUids |-> IF u \in keys THEN 1 ELSE 0],
                       drained |-> [u \in ViewUids |->
                                      Cardinality({i \in 1 .. flush.n : batch[i].uid = u})],
                       total_speed |-> Cardinality(keys),
                       shown |-> buffer,
                       order |-> FirstSeen(batch)]
    /\ flush' = [pc |-> "size", n |-> 0]
    /\ UNCHANGED <<sent, watchdog, post, gui, refreshed>>
    /\ UNCHANGED dvars

\* _observer: get the events counted, merge them into buffer, call _update_view
\* for every value of buffer, clear buffer, sleep; _update_view: command
\* 'update', the extra keys when the uid is in d_map and downloaded is truthy,
\* one total_speed notification and one notification with the kwargs
FlushDrain ==
    /\ flush.pc = "drain"
    /\ LET batch == SubSeq(observer_q, 1, flush.n)
           keys == Keys(batch)
       IN  /\ observer_q' = SubSeq(observer_q, flush.n + 1, Len(observer_q))
           /\ view' = [emitted |-> [u \in ViewUids |-> Buffered(batch, u)],
                       extra |-> [u \in ViewUids |->
                                    /\ u \in keys
                                    /\ d_map[u] # NoObj
                                    /\ Buffered(batch, u)["downloaded"] \notin {Absent, 0}],
                       updates |-> [u \in ViewUids |-> IF u \in keys THEN 1 ELSE 0],
                       drained |-> [u \in ViewUids |->
                                      Cardinality({i \in 1 .. flush.n : batch[i].uid = u})],
                       total_speed |-> Cardinality(keys),
                       shown |-> [u \in ViewUids |->
                                    Merge(view.shown[u], Buffered(batch, u))],
                       order |-> FirstSeen(batch)]
    /\ flush' = [pc |-> "size", n |-> 0]
    /\ UNCHANGED <<sent, watchdog, post, gui, refreshed>>
    /\ UNCHANGED dvars

\* ------------------------------------------------- completion watchdog
\* all([d.status == Status.completed for d in self.d_map.values()])
AllCompleted == \A o \in DMapValues : obj[o].status = "completed"

\* the first test of a poll that arms whenever an action is configured
WatchAnyArmsAlways ==
    /\ watchdog.pc = "any"
    /\ ~config.shutdown
    /\ watchdog' = IF ~watchdog.action THEN [watchdog EXCEPT !.trigger = FALSE]
                   ELSE [watchdog EXCEPT !.trigger = TRUE, !.pc = "all"]
    /\ UNCHANGED <<observer_q, flush, view, sent, post, gui, refreshed>>
    /\ UNCHANGED dvars

\* one poll up to the test of the trigger: no action configured: trigger =
\* False; some job active: trigger = True; else, when the trigger is set, go on
\* to the test of completion; time.sleep(5) otherwise
WatchAny ==
    /\ watchdog.pc = "any"
    /\ ~config.shutdown
    /\ watchdog' = IF ~watchdog.action THEN [watchdog EXCEPT !.trigger = FALSE]
                   ELSE IF ActiveDownloads > 0 THEN [watchdog EXCEPT !.trigger = TRUE]
                   ELSE IF watchdog.trigger THEN [watchdog EXCEPT !.pc = "all"]
                   ELSE watchdog
    /\ UNCHANGED <<observer_q, flush, view, sent, post, gui, refreshed>>
    /\ UNCHANGED dvars

\* the test of completion that leaves the trigger set after firing
WatchAllKeepsTrigger ==
    /\ watchdog.pc = "all"
    /\ watchdog' = IF AllCompleted
                   THEN [watchdog EXCEPT !.pc = "any", !.fired = @ + 1]
                   ELSE [watchdog EXCEPT !.pc = "any"]
    /\ AllCompleted => watchdog.fired < MaxFired
    /\ UNCHANGED <<observer_q, flush, view, sent, post, gui, refreshed>>
    /\ UNCHANGED dvars

\* the rest of the poll: all items completed: trigger = False, run the command
\* and / or shut down; time.sleep(5)
WatchAll ==
    /\ watchdog.pc = "all"
    /\ watchdog' = IF AllCompleted
                   THEN [watchdog EXCEPT !.pc = "any", !.trigger = FALSE, !.fired = @ + 1]
                   ELSE [watchdog EXCEPT !.pc = "any"]
    /\ AllCompleted => watchdog.fired < MaxFired
    /\ UNCHANGED <<observer_q, flush, view, sent, post, gui, refreshed>>
    /\ UNCHANGED dvars

\* if config.shutdown: break
WatchBreak ==
    /\ watchdog.pc = "any"
    /\ config.shutdown
    /\ watchdog' = [watchdog EXCEPT !.pc = "exit"]
    /\ UNCHANGED <<observer_q, flush, view, sent, post, gui, refreshed>>
    /\ UNCHANGED dvars

\* quit(): config.shutdown = True, then stop_download(d.uid) for every job of
\* d_map
Quit ==
    /\ ~config.shutdown
    /\ config' = [config EXCEPT !.shutdown = TRUE]
    /\ obj' = [o \in ObjIds |->
                 IF (\E d \in DMapValues : d_map[obj[d].uid] = o)
                    /\ obj[o].status \in ActiveStates \cup {"pending"}
                 THEN [obj[o] EXCEPT !.status = "cancelled"]
                 ELSE obj[o]]
    /\ UNCHANGED <<d_map, pending_q, thr, ncalls, cap, drain, sched, now, nops>>
    /\ UNCHANGED others

\* ------------------------------------------------------- _post_download
\* the on-completion actions in the order _post_download runs them
PostActions == <<"thumbnail", "checksum", "timestamp", "command", "shutdown">>

\* download_thumbnail and write_timestamp catch what they raise
Guarded == {"thumbnail", "timestamp"}

\* run_command returns its error, shutdown_pc logs the error of its command
Returning == {"command", "shutdown"}

\* self._post_download(d): status is d.status; enabled holds the actions
\* switched on by config.download_thumbnail, config.checksum,
\* config.use_server_timestamp, d.on_completion_command and d.shutdown_pc
PostBegin(status, enabled, test_mode) ==
    /\ post.pc = "idle"
    /\ post' = [pc |-> IF status = "completed" THEN "run" ELSE "done", i |-> 1,
                status |-> status, enabled |-> enabled, test_mode |-> test_mode,
                ran |-> {}]
    /\ UNCHANGED <<observer_q, flush, view, sent, watchdog, gui, refreshed>>
    /\ UNCHANGED dvars

\* the next if-statement of _post_download: an action that is switched on runs
\* and succeeds or fails; a failure caught inside the action (raised again in
\* config.test_mode) or returned as an error lets _post_download go on, any
\* other failure leaves _post_download for the handler of download()
PostStep ==
    /\ post.pc = "run"
    /\ LET a == PostActions[post.i]
           next == IF post.i = Len(PostActions) THEN "done" ELSE "run"
       IN  IF a \notin post.enabled
           THEN post' = [post EXCEPT !.pc = next, !.i = @ + 1]
           ELSE \E failed \in BOOLEAN :
                   post' = IF failed /\ ((a \in Guarded /\ post.test_mode)
                                         \/ a \notin Guarded \cup Returning)
                           THEN [post EXCEPT !.pc = "raised", !.ran = @ \cup {a}]
                           ELSE [post EXCEPT !.pc = next, !.i = @ + 1,
                                             !.ran = @ \cup {a}]
    /\ UNCHANGED <<observer_q, flush, view, sent, watchdog, gui, refreshed>>
    /\ UNCHANGED dvars

\* ------------------------------------------------------- auto_refresh_url
Names == 1 .. NumNames
Folders == 1 .. NumFolders
Qualities == 1 .. NumQualities
Urls == 1 .. NumUrls

\* DownloadItem.calculate_uid: the uid is derived from folder and name
CalculateUid(name, folder) == (folder - 1) * NumNames + name

\* the items auto_refresh_url is called for, and those an extraction builds
RefreshItems ==
    {d \in [type : {"file", "video", "audio"}, name : Names, folder : Folders,
            uid : 1 .. (NumNames * NumFolders), eff_url : Urls,
            selected_quality : Qualities, streams : SUBSET Qualities] :
        /\ d.uid = CalculateUid(d.name, d.folder)
        /\ d.streams = IF d.type = "file" THEN {} ELSE Qualities}

\* get_headers(url): the effective url and the content type of the answer
Headers == [eff_url : Urls, content_type : {"text/html", "video/mp4", ""}]

\* create_video_playlist(url): nothing, or fresh items named by the extraction
\* with the streams the site offers now
Playlists ==
    {<<>>} \cup {<<d>> : d \in {x \in RefreshItems : x.type = "video" /\ x.folder = 1}}

\* the name and folder setters of DownloadItem: the uid follows the new path
SetName(d, name) == [d EXCEPT !.name = name, !.uid = CalculateUid(name, d.folder)]

SetFolder(d, folder) == [d EXCEPT !.folder = folder, !.uid = CalculateUid(d.name, folder)]

\* Video.select_stream(name=quality): the stream of that name; the call raises
\* when the item has no such stream and the item keeps its own selection
SelectStream(d, quality, eff_url) ==
    IF quality \in d.streams
    THEN [d EXCEPT !.selected_quality = quality, !.eff_url = eff_url]
    ELSE d

\* auto_refresh_url with the content type of the probe ignored
AutoRefreshUrlAnyType(d, headers, playlist) ==
    IF d.type \notin {"video", "audio"}
    THEN [d EXCEPT !.eff_url = headers.eff_url]
    ELSE IF playlist # <<>>
         THEN SelectStream(SetFolder(SetName(playlist[1], d.name), d.folder),
                           d.selected_quality, playlist[1].eff_url)
         ELSE d

\* auto_refresh_url(d): a header probe for a plain file, a new extraction for
\* a media item, whose result takes the old name and folder and replaces the
\* attributes of d (d.__dict__.update)
AutoRefreshUrl(d, headers, playlist) ==
    IF d.type \notin {"video", "audio"}
    THEN IF headers.content_type # "text/html"
         THEN [d EXCEPT !.eff_url = headers.eff_url]
         ELSE d
    ELSE IF playlist # <<>>
         THEN SelectStream(SetFolder(SetName(playlist[1], d.name), d.folder),
                           d.selected_quality, playlist[1].eff_url)
         ELSE d

\* one call of auto_refresh_url: for any item, then for the item it returned
AutoRefresh(d, headers, playlist) ==
    /\ refreshed.n < MaxRefreshCalls
    /\ refreshed.n >= 1 => d = refreshed.d
    /\ refreshed' = [n |-> refreshed.n + 1, old |-> d, headers |-> headers,
                     playlist |-> playlist, d |-> AutoRefreshUrl(d, headers, playlist)]
    /\ UNCHANGED dvars
    /\ UNCHANGED <<observer_q, flush, view, sent, watchdog, post, gui>>

\* ---------------------------------------------------------- specification
\* one step of a download() thread with the transfer engine brain
ThreadStep(c, E, outcomes) ==
    \/ Copy(c)
    \/ Checks(c, E)
    \/ Register(c)
    \/ Admit(c)
    \/ BrainBegin(c)
    \/ BrainStep(c, outcomes)
    \/ Joined(c)
    \/ ReportRefresh(c)
    \/ Refresh(c)
    \/ Report(c)

\* submissions, stop and delete from the view; the pending drain loop
Next ==
    \/ \E t \in 1 .. 2, later \in BOOLEAN : UserDownload(t, later)
    \/ \E u \in Uids : UserResume(u)
    \/ \E c \in Calls : ThreadStep(c, EnvInputs, {"chunk", "error"})
    \/ \E u \in Uids : StopDownload(u) /\ UNCHANGED <<nops, gui, refreshed>>
    \/ \E u \in Uids : Delete(u) /\ UNCHANGED <<nops, gui, refreshed>>
    \/ DrainCount
    \/ DrainGet

Spec == Init /\ [][Next]_vars

\* the same with download_simulator as the engine (config.simulator)
ThreadStepSim(c, E) ==
    \/ Copy(c)
    \/ Checks(c, E)
    \/ Register(c)
    \/ Admit(c)
    \/ SimBegin(c)
    \/ SimAdd(c)
    \/ SimTest(c)
    \/ SimClamp(c)
    \/ Joined(c)
    \/ Report(c)

InitSim == InitWith(MaxCalls, TRUE)

NextSim ==
    \/ \E t \in 1 .. 2, later \in BOOLEAN : UserDownload(t, later)
    \/ \E u \in Uids : UserResume(u)
    \/ \E c \in Calls : ThreadStepSim(c, EnvPlain)
    \/ \E u \in Uids : StopDownload(u) /\ UNCHANGED <<nops, gui, refreshed>>
    \/ \E u \in Uids : Delete(u) /\ UNCHANGED <<nops, gui, refreshed>>
    \/ DrainCount
    \/ DrainGet

SpecSim == InitSim /\ [][NextSim]_vars

\* a stop_download or schedule_start call of the view, counted against MaxOps
Counted == nops < MaxOps /\ nops' = nops + 1

\* no download() call is between its start and its admission decision
Admitted == \A c \in Calls : thr[c].pc \notin {"copy", "checks", "register", "admit"}

\* the background loops at work: run-now submissions of two playlist entries,
\* stop, scheduling and the clock, with the drain loop and the scheduled trigger
InitLoops == InitWith(MaxCallsLoops, FALSE)

NextLoops ==
    \/ \E t \in {1, 3} : UserDownload(t, FALSE) /\ Admitted
    \/ \E c \in Calls : ThreadStep(c, EnvPlain, {"error"})
    \/ \E u \in Uids : StopDownload(u) /\ Counted /\ UNCHANGED <<gui, refreshed>>
    \/ \E u \in Uids, target \in 0 .. MaxNow : ScheduleStart(u, target) /\ Counted /\ UNCHANGED <<gui, refreshed>>
    \/ \E u \in Uids : ScheduleCancel(u) /\ UNCHANGED <<nops, gui, refreshed>>
    \/ Tick
    \/ DrainCount
    \/ DrainGet
    \/ SchedScan
    \/ SchedFire

SpecLoops == InitLoops /\ [][NextLoops]_vars

\* the number of download() calls the view has made
UserCalls == Cardinality({c \in Calls : thr[c].by = "user"})

\* the pending queue at work: the view submits the playlist entries in order,
\* one at a time and each once, and every check of the environment passes
InitFifo == InitWith(MaxCallsFifo, FALSE)

NextFifo ==
    \/ \E t \in Templates : UserDownload(t, FALSE) /\ Admitted /\ t = UserCalls + 1
    \/ \E c \in Calls : ThreadStep(c, EnvPlain, {"chunk", "error"})
    \/ DrainCount
    \/ DrainGet

SpecFifo == InitFifo /\ [][NextFifo]_vars

\* the scenario of two submissions under a ceiling of one, with the threads and
\* the drain loop scheduled fairly: the web page first, then the video, or the
\* video first, then the web page
InitLive == InitWith(MaxCallsLive, FALSE)

NextLive ==
    \/ \E t \in 1 .. 2 : UserDownload(t, FALSE) /\ Admitted /\ UserCalls < 2
    \/ \E c \in Calls : ThreadStep(c, EnvPlain, {"chunk", "error"})
    \/ DrainCount
    \/ DrainGet

SpecLive ==
    /\ InitLive
    /\ [][NextLive]_vars
    /\ \A c \in Calls : WF_vars(ThreadStep(c, EnvPlain, {"chunk", "error"}))
    /\ WF_vars(DrainCount)
    /\ WF_vars(DrainGet)

\* an item with the name and folder of playlist entry 1, hence its uid, but of
\* another size
Collider == [TemplateItem(1) EXCEPT !.total_size = TemplateSize \div 2]

\* identifier collisions: the third playlist entry collides with the first;
\* nothing is missing and no file exists
InitStore ==
    /\ obj = [o \in ObjIds |-> IF o = 3 THEN Collider
                               ELSE IF o \in 1 .. FfmpegItem THEN TemplateItem(o)
                               ELSE NullItem]
    /\ d_map = [u \in Uids |-> NoObj]
    /\ pending_q = <<>>
    /\ thr = [c \in Calls |-> IdleThread]
    /\ ncalls = 0
    /\ cap = MaxCallsStore
    /\ config \in [max_concurrent_downloads : 1 .. MaxCeiling,
                   refresh_url_retries : {MaxRetries},
                   simulator : {FALSE},
                   shutdown : {FALSE}]
    /\ drain = "count"
    /\ sched = [pc |-> "scan", list |-> {}, current |-> 0]
    /\ now = 0
    /\ nops = 0
    /\ InitObserver
    /\ InitWatchdog
    /\ InitPost
    /\ InitGui
    /\ InitRefreshed

NextStore ==
    \/ \E t \in {1, 3} : UserDownload(t, FALSE)
    \/ \E c \in Calls : ThreadStep(c, EnvPlain, {"chunk", "error"})

SpecStore == InitStore /\ [][NextStore]_vars

\* the view update path alone: d_map as loaded from the saved list, one
\* completed item; the flush loop runs for ever
InitView ==
    /\ obj = [o \in ObjIds |->
                IF o = 1 THEN [TemplateItem(1) EXCEPT !.status = "completed",
                                                      !.downloaded = TemplateSize]
                ELSE IF o \in 1 .. FfmpegItem THEN TemplateItem(o)
                ELSE NullItem]
    /\ d_map = [u \in Uids |-> IF u = 1 THEN 1 ELSE NoObj]
    /\ pending_q = <<>>
    /\ thr = [c \in Calls |-> IdleThread]
    /\ ncalls = 0
    /\ cap = 0
    /\ config \in [max_concurrent_downloads : 1 .. MaxCeiling,
                   refresh_url_retries : {MaxRetries},
                   simulator : {FALSE},
                   shutdown : {FALSE}]
    /\ drain = "count"
    /\ sched = [pc |-> "scan", list |-> {}, current |-> 0]
    /\ now = 0
    /\ nops = 0
    /\ InitObserver
    /\ InitWatchdog
    /\ InitPost
    /\ InitGui
    /\ InitRefreshed

NextView ==
    \/ \E e \in Events : Observer(e)
    \/ FlushSize
    \/ FlushDrain

SpecView ==
    /\ InitView
    /\ [][NextView]_vars
    /\ WF_vars(FlushSize)
    /\ WF_vars(FlushDrain)

\* the watchdog at work: d_map as loaded from the saved list, one completed
\* item; an on-completion action is configured or not; the view downloads the
\* first playlist entry; the threads and the watchdog run for ever
InitWatch ==
    /\ obj = [o \in ObjIds |->
                IF o = 3 THEN [TemplateItem(3) EXCEPT !.status = "completed",
                                                      !.downloaded = TemplateSize]
                ELSE IF o \in 1 .. FfmpegItem THEN TemplateItem(o)
                ELSE NullItem]
    /\ d_map = [u \in Uids |-> IF u = 3 THEN 3 ELSE NoObj]
    /\ pending_q = <<>>
    /\ thr = [c \in Calls |-> IdleThread]
    /\ ncalls = 0
    /\ cap = MaxCallsWatch
    /\ config \in [max_concurrent_downloads : 1 .. MaxCeiling,
                   refresh_url_retries : {MaxRetries},
                   simulator : {FALSE},
                   shutdown : {FALSE}]
    /\ drain = "count"
    /\ sched = [pc |-> "scan", list |-> {}, current |-> 0]
    /\ now = 0
    /\ nops = 0
    /\ InitObserver
    /\ watchdog \in [pc : {"any"}, trigger : {FALSE}, action : BOOLEAN, fired : {0}]
    /\ InitPost
    /\ InitGui
    /\ InitRefreshed

NextWatch ==
    \/ UserDownload(1, FALSE) /\ Admitted
    \/ \E c \in Calls : ThreadStep(c, EnvPlain, {"chunk", "error"})
    \/ WatchAny
    \/ WatchAll

SpecWatch ==
    /\ InitWatch
    /\ [][NextWatch]_vars
    /\ \A c \in Calls : WF_vars(ThreadStep(c, EnvPlain, {"chunk", "error"}))
    /\ WF_vars(WatchAny)
    /\ WF_vars(WatchAll)

\* the watchdog while the view also deletes jobs from the list
NextWatchDelete ==
    \/ NextWatch
    \/ \E u \in {1, 3} : Delete(u) /\ UNCHANGED <<nops, gui, refreshed>>

SpecWatchDelete == InitWatch /\ [][NextWatchDelete]_vars

\* _post_download alone, for every status, set of actions and test mode
InitRunPost == InitWith(0, FALSE)

NextPost ==
    \/ \E status \in {"completed", "cancelled", "error"},
          enabled \in SUBSET {PostActions[i] : i \in 1 .. Len(PostActions)},
          test_mode \in BOOLEAN : PostBegin(status, enabled, test_mode)
    \/ PostStep

SpecPost == InitRunPost /\ [][NextPost]_vars

\* no call made by the scheduled trigger is between its start and the moment
\* its engine has set the status: the trigger sleeps 60 s between two polls
PollSettled ==
    \A c \in Calls :
        thr[c].by = "sched"
        => thr[c].pc \notin {"copy", "checks", "register", "admit", "begin"}

\* the uids the view names in its calls: those of the first two playlist entries
GuiUids == {1, 2}

\* the operations of the view against the download threads and the pending
\* drain loop: the view downloads the first two playlist entries in order, stops,
\* deletes and schedules, one call after the other
InitOps == InitWith(MaxCallsOps, FALSE)

NextOps ==
    \/ \E t \in 1 .. 2 : UserDownload(t, FALSE) /\ Admitted /\ t = UserCalls + 1
    \/ \E c \in Calls : ThreadStep(c, EnvPlain, {"chunk", "error"})
    \/ \E u \in GuiUids : StopDownload(u) /\ Called("stop_download", u) /\ UNCHANGED nops
    \/ \E u \in GuiUids : StopDownloadReturns(u) /\ Called("stop_download", u) /\ UNCHANGED nops
    \/ \E u \in GuiUids : Delete(u) /\ Called("delete", u) /\ UNCHANGED nops
    \/ \E u \in GuiUids, target \in 0 .. MaxNow : ScheduleStartSched(u, target)
    \/ ScheduleStartStatus
    \/ \E u \in GuiUids : ScheduleCancelStatus(u)
    \/ ScheduleCancelSched
    \/ DrainCount
    \/ DrainGet

SpecOps == InitOps /\ [][NextOps]_vars

\* the scheduled trigger at work: the view downloads the web page, schedules
\* it, cancels the schedule or deletes it, while the clock advances
InitSched == InitWith(MaxCallsSched, FALSE)

NextSched ==
    \/ UserDownload(2, FALSE) /\ UserCalls < 1
    \/ \E c \in Calls : ThreadStep(c, EnvPlain, {"chunk", "error"})
    \/ \E u \in GuiUids : Delete(u) /\ Called("delete", u) /\ UNCHANGED nops
    \/ \E u \in GuiUids, target \in 0 .. MaxNow : ScheduleStartSched(u, target)
    \/ ScheduleStartStatus
    \/ \E u \in GuiUids : ScheduleCancelStatus(u)
    \/ ScheduleCancelSched
    \/ Tick
    \/ SchedScan /\ PollSettled
    \/ SchedFire

SpecSched == InitSched /\ [][NextSched]_vars

\* the pending drain loop with jobs cancelled while queued: the view submits
\* the playlist entries in order and stops the first two
InitDrain == InitWith(MaxCallsDrain, FALSE)

NextDrain ==
    \/ \E t \in Templates : UserDownload(t, FALSE) /\ Admitted /\ t = UserCalls + 1
    \/ \E c \in Calls : ThreadStep(c, EnvPlain, {"chunk", "error"})
    \/ \E u \in GuiUids : StopDownload(u) /\ Called("stop_download", u) /\ UNCHANGED nops
    \/ DrainCount
    \/ DrainGet

SpecDrain == InitDrain /\ [][NextDrain]_vars

\* download_later and run-now calls for a list loaded from the saved one: the
\* third playlist entry is completed and in d_map
InitLater ==
    /\ obj = [o \in ObjIds |->
                IF o = 3 THEN [TemplateItem(3) EXCEPT !.status = "completed",
                                                      !.downloaded = TemplateSize]
                ELSE IF o \in 1 .. FfmpegItem THEN TemplateItem(o)
                ELSE NullItem]
    /\ d_map = [u \in Uids |-> IF u = 3 THEN 3 ELSE NoObj]
    /\ pending_q = <<>>
    /\ thr = [c \in Calls |-> IdleThread]
    /\ ncalls = 0
    /\ cap = MaxCallsLater
    /\ config \in [max_concurrent_downloads : 1 .. MaxCeiling,
                   refresh_url_retries : {MaxRetries},
                   simulator : {FALSE},
                   shutdown : {FALSE}]
    /\ drain = "count"
    /\ sched = [pc |-> "scan", list |-> {}, current |-> 0]
    /\ now = 0
    /\ nops = 0
    /\ InitObserver
    /\ InitWatchdog
    /\ InitPost
    /\ InitGui
    /\ InitRefreshed

NextLater ==
    \/ \E t \in {1, 3}, later \in BOOLEAN : UserDownload(t, later)
    \/ \E c \in Calls : ThreadStep(c, EnvPlain, {"chunk", "error"})

SpecLater == InitLater /\ [][NextLater]_vars

InitRefresh == InitWith(0, FALSE)

NextRefresh ==
    \E d \in RefreshItems, headers \in Headers, playlist \in Playlists :
        AutoRefresh(d, headers, playlist)

SpecRefresh == InitRefresh /\ [][NextRefresh]_vars

\* the controller is shut down while downloads run or wait
InitQuit ==
    /\ obj = [o \in ObjIds |-> IF o \in 1 .. FfmpegItem THEN TemplateItem(o) ELSE NullItem]
    /\ d_map = [u \in Uids |-> NoObj]
    /\ pending_q = <<>>
    /\ thr = [c \in Calls |-> IdleThread]
    /\ ncalls = 0
    /\ cap = MaxCallsQuit
    /\ config \in [max_concurrent_downloads : 1 .. MaxCeiling,
                   refresh_url_retries : {MaxRetries},
                   simulator : {FALSE},
                   shutdown : {FALSE}]
    /\ drain = "count"
    /\ sched = [pc |-> "scan", list |-> {}, current |-> 0]
    /\ now = 0
    /\ nops = 0
    /\ InitObserver
    /\ watchdog \in [pc : {"any"}, trigger : {FALSE}, action : BOOLEAN, fired : {0}]
    /\ InitPost
    /\ InitGui
    /\ InitRefreshed

NextQuit ==
    \/ \E t \in {1, 3} : UserDownload(t, FALSE) /\ (t = 1 <=> UserCalls = 0)
    \/ \E c \in Calls : ThreadStep(c, EnvPlain, {"chunk", "error"})
    \/ DrainCount
    \/ DrainGet
    \/ Quit
    \/ WatchAny
    \/ WatchAll
    \/ WatchBreak

SpecQuit == InitQuit /\ [][NextQuit]_vars

TypeOK ==
    /\ \A o \in ObjIds : obj[o].status \in Status \cup {"none"}
    /\ \A u \in Uids : d_map[u] \in ObjIds \cup {NoObj}
    /\ ncalls \in 0 .. cap

\* ------------------------------------------------------------------ claims
\* positions of a download() thread at which its engine thread is live
EnginePcs == {"begin", "brain_run", "sim_add", "sim_test", "sim_clamp"}

\* positions of a download() thread inside the retry loop after the engine of
\* its first attempt has set the status
InRetryLoop(c) ==
    \/ thr[c].pc \in {"brain_run", "sim_add", "sim_test", "sim_clamp", "joined", "refresh",
                     "auto_refresh"}
    \/ thr[c].pc = "begin" /\ thr[c].n >= 1

\* C1: the number of d_map records with an active status never exceeds
\* config.max_concurrent_downloads
C1_CeilingRespected ==
    ActiveDownloads <= config.max_concurrent_downloads

\* C2: for every identifier at most one engine thread is live at any time
C2_OneLiveExecution ==
    \A u \in Uids :
        Cardinality({c \in Calls : thr[c].pc \in EnginePcs /\ obj[CallObj(c)].uid = u}) <= 1

\* C3: one submission starts the engine at most refresh_url_retries + 1 times;
\* when every join found status error it started it exactly that many times
\* and called auto_refresh_url exactly refresh_url_retries times
C3_RetryBound ==
    \A c \in Calls :
        /\ thr[c].attempts <= config.refresh_url_retries + 1
        /\ (thr[c].pc \in {"report", "done"} /\ thr[c].attempts >= 1
                /\ thr[c].errs = thr[c].attempts)
           => /\ thr[c].attempts = config.refresh_url_retries + 1
              /\ thr[c].refreshes = config.refresh_url_retries

\* C3 witness: a submission has ended after failing every attempt
C3_Witness ==
    \E c \in Calls :
        /\ thr[c].pc = "done"
        /\ thr[c].errs = thr[c].attempts
        /\ thr[c].attempts = config.refresh_url_retries + 1
        /\ thr[c].refreshes >= 1

\* the retry loop of call c has ended with the bound exhausted
Exhausted(c) ==
    /\ thr[c].pc \in {"report", "done"}
    /\ thr[c].errs = config.refresh_url_retries + 1

\* C4: when the retry bound is exhausted the record stays in d_map with status
\* error, and while it is in that state the retry loop starts no further engine
\* thread for it and neither the drain loop nor the scheduled trigger hands it
\* to download()
C4_ExhaustedStaysError ==
    [][\A c \in Calls :
          /\ (~Exhausted(c) /\ Exhausted(c)')
             => /\ d_map' = d_map
                /\ obj'[CallObj(c)].status = "error"
          /\ (Exhausted(c) /\ obj[CallObj(c)].status = "error")
             => /\ thr'[c].attempts = thr[c].attempts
                /\ \A k \in Calls :
                      (thr[k].pc = "idle" /\ thr'[k].pc = "copy"
                          /\ thr'[k].by \in {"drain", "sched"})
                      => thr'[k].src # CallObj(c)
                /\ (d_map[obj[CallObj(c)].uid] = CallObj(c)
                    => \/ d_map'[obj[CallObj(c)].uid] = CallObj(c)
                       \/ \E k \in Calls \ {c} : thr[k].pc = "register")]_vars

\* C5: a job cancelled while its submission is running never becomes
\* downloading or completed again
C5_CancelledStays ==
    [][\A c \in Calls :
          (InRetryLoop(c) /\ obj[CallObj(c)].status = "cancelled")
          => obj'[CallObj(c)].status \notin {"downloading", "completed"}]_vars

\* C6: once the job of a running submission is cancelled, download() starts
\* no further engine thread for it
C6_NoAttemptAfterCancel ==
    [][\A c \in Calls :
          (InRetryLoop(c) /\ obj[CallObj(c)].status = "cancelled")
          => thr'[c].attempts = thr[c].attempts]_vars

\* C7: pending jobs begin execution in the order in which they were queued: a
\* job queued after another does not start before it
C7_FifoStart ==
    \A i, j \in Calls :
        (i < j /\ thr[i].by = "user" /\ thr[j].by = "user"
            /\ thr[i].queued /\ thr[j].queued)
        => ((\E k \in Calls : /\ thr[k].by = "drain" /\ thr[k].attempts >= 1
                              /\ obj[CallObj(k)].uid = obj[CallObj(j)].uid)
            => (\E k \in Calls : /\ thr[k].by = "drain" /\ thr[k].attempts >= 1
                                 /\ obj[CallObj(k)].uid = obj[CallObj(i)].uid))

\* the record d_map holds for the uid of object o is downloading
Downloading(o) ==
    /\ obj[o].uid # NoUid
    /\ d_map[obj[o].uid] # NoObj
    /\ obj[d_map[obj[o].uid]].status = "downloading"

\* C8: when the active count is below the ceiling, the pending job at the head
\* of the pending queue eventually reaches status downloading
C8_HeadEventuallyStarts ==
    \A o \in ObjIds :
        (/\ pending_q # <<>> /\ Head(pending_q) = o
         /\ obj[o].status = "pending"
         /\ ActiveDownloads < config.max_concurrent_downloads)
        ~> Downloading(o)

\* C9 (as stated): a download() call whose validation failed, and every call
\* made on its behalf, leaves d_map and the pending queue alone and starts no
\* engine thread
C9_FailedCallChangesNothing ==
    \A c \in Calls :
        thr[c].checked = "fail"
        => \A k \in Calls :
              (k = c \/ thr[k].parent = c)
              => ~thr[k].registered /\ ~thr[k].queued /\ thr[k].attempts = 0

\* C9 (amended): the job of a failed call is never registered, queued or
\* started, and the validation step itself leaves d_map and the queue unchanged;
\* the only call made on its behalf is the silent download of ffmpeg
C9_FailedJobNotRegistered ==
    /\ [](\A c \in Calls :
            thr[c].checked = "fail"
            => /\ ~thr[c].registered /\ ~thr[c].queued /\ thr[c].attempts = 0
               /\ thr[c].pc = "done"
               /\ \A u \in Uids : d_map[u] # CallObj(c)
               /\ \A i \in 1 .. Len(pending_q) : pending_q[i] # CallObj(c)
               /\ \A k \in Calls : thr[k].parent = c => thr[k].by = "ffmpeg")
    /\ [][\A c \in Calls :
            (thr[c].checked = "none" /\ thr'[c].checked = "fail")
            => d_map' = d_map /\ pending_q' = pending_q]_vars

\* C9 witness: a failed call has ended while another job is in the store
C9_Witness ==
    \E c \in Calls :
        /\ thr[c].checked = "fail" /\ thr[c].pc = "done"
        /\ DMapValues # {}

\* C10: a validated download_later call registers its copy under its uid and
\* starts no engine thread, queues nothing and leaves the status as it is
C10_DownloadLater ==
    /\ [](\A c \in Calls :
            thr[c].later
            => /\ thr[c].attempts = 0 /\ ~thr[c].queued
               /\ thr[c].pc \in {"copy", "checks", "register", "report", "done"})
    /\ [][\A c \in Calls :
            (thr[c].later /\ thr[c].pc \in {"checks", "register", "report"}
                /\ thr'[c].pc # thr[c].pc)
            => /\ obj'[CallObj(c)].status = obj[CallObj(c)].status
               /\ pending_q' = pending_q
               /\ (thr[c].pc = "register"
                   => d_map' = [d_map EXCEPT ![obj[CallObj(c)].uid] = CallObj(c)])
               /\ (thr[c].pc # "register" => d_map' = d_map)]_vars

\* C10 witness: a download_later call has returned with its copy in the store
C10_Witness ==
    \E c \in Calls :
        /\ thr[c].later /\ thr[c].pc = "done" /\ thr[c].registered
        /\ d_map[obj[CallObj(c)].uid] = CallObj(c)

\* C11: download() replaces the record d_map holds for a uid only by a job
\* accepted as a resume of that record: of equal total_size, with the downloaded
\* count of the record
C11_NoSilentReplace ==
    [][\A u \in Uids :
          (d_map[u] # NoObj /\ d_map'[u] # NoObj /\ d_map'[u] # d_map[u])
          => /\ obj'[d_map'[u]].total_size = obj[d_map[u]].total_size
             /\ obj'[d_map'[u]].downloaded = obj[d_map[u]].downloaded]_vars

Naming(u, f, n) == {i \in 1 .. n : observer_q[i].uid = u /\ observer_q[i].kw[f] # Absent}

\* the largest element of a non-empty set of numbers
Latest(S) == CHOOSE i \in S : \A j \in S : j <= i

\* C13: a flush emits exactly one update for a uid with one or more events in
\* the window, and none for a uid without
C13_OneUpdatePerUid ==
    [][(flush.pc = "drain" /\ flush'.pc = "size")
       => \A u \in ViewUids :
             view'.updates[u] =
                IF \E i \in 1 .. flush.n : observer_q[i].uid = u THEN 1 ELSE 0]_vars

\* C13 witness: a window with two or more events of one uid and none of the
\* other has been flushed with one update
C13_Witness ==
    /\ flush.pc = "size"
    /\ view.drained[1] >= 2 /\ view.updates[1] = 1
    /\ view.drained[2] = 0 /\ view.updates[2] = 0

\* C14: the update emitted for a uid carries, for every key, the value of the
\* latest event of the window naming the key, and no value for a key that no
\* event of the window names
C14_LastWriteWins ==
    [][(flush.pc = "drain" /\ flush'.pc = "size")
       => \A u \in ViewUids : \A f \in Fields :
             view'.emitted[u][f] =
                IF Naming(u, f, flush.n) = {} THEN Absent
                ELSE observer_q[Latest(Naming(u, f, flush.n))].kw[f]]_vars

\* C14 witness: two events of one uid were flushed in one window, the second
\* changing a value of the first, and the update carries the later value
C14_Witness ==
    /\ flush.pc = "size"
    /\ sent.count = 2 /\ sent.overwrites = 1
    /\ view.drained[1] = 2
    /\ view.emitted[1] = sent.last[1]

\* C15: once the events have stopped, the view has eventually been given the
\* latest value enqueued for every key of every uid, and it stays so
C15_LatestDelivered ==
    <>[](\A u \in ViewUids : \A f \in Fields : view.shown[u][f] = sent.last[u][f])

\* C15 witness: all events were given, some changed a value given before, and
\* the view has the latest values
C15_Witness ==
    /\ sent.count = MaxEvents /\ sent.overwrites >= 1
    /\ observer_q = <<>> /\ flush.pc = "size"
    /\ \A u \in ViewUids : view.shown[u] = sent.last[u]

\* C16: firing the on-completion action clears the trigger, and the action is
\* not fired while the trigger is clear
C16_FiresOncePerArming ==
    [][/\ (watchdog'.fired # watchdog.fired)
          => /\ watchdog'.fired = watchdog.fired + 1
             /\ ~watchdog'.trigger
       /\ (~watchdog.trigger => watchdog'.fired = watchdog.fired)]_vars

\* C16 witness: the action has fired twice and the trigger is clear
C16_Witness ==
    watchdog.fired = 2 /\ ~watchdog.trigger /\ watchdog.pc = "any"

\* some d_map record completed by a download() call is in the store
BatchDone ==
    \E c \in Calls :
        /\ thr[c].attempts >= 1
        /\ d_map[obj[CallObj(c)].uid] = CallObj(c)
        /\ obj[CallObj(c)].status = "completed"

\* C17: with an action configured, when a job has been active and all jobs
\* of the store are completed, the watchdog eventually fires the action
C17_BatchLeadsToFiring ==
    (watchdog.action /\ watchdog.fired = 0 /\ BatchDone /\ AllCompleted)
    ~> (watchdog.fired >= 1 \/ ~AllCompleted)

\* C18: the trigger is set only by a poll that sees an active job while an
\* action is configured, the action fires only with the trigger set, and
\* before any job has been started the trigger is clear and nothing has fired
C18_ArmedOnlyByActiveJob ==
    /\ [](((\A c \in Calls : thr[c].attempts = 0) \/ ~watchdog.action)
           => (~watchdog.trigger /\ watchdog.fired = 0))
    /\ [][/\ (~watchdog.trigger /\ watchdog'.trigger)
             => (ActiveDownloads > 0 /\ watchdog.action)
          /\ (watchdog'.fired # watchdog.fired)
             => (watchdog.trigger /\ watchdog.pc = "all")]_vars

\* C18 witness: a poll has seen an active job with an action configured and
\* has set the trigger; nothing has fired yet
C18_Witness ==
    /\ watchdog.action /\ watchdog.trigger /\ watchdog.fired = 0
    /\ watchdog.pc = "any"
    /\ ActiveDownloads > 0

\* C19: downloaded never exceeds total_size, and a completed job has
\* downloaded equal to total_size
C19_DownloadedWithinSize ==
    \A o \in ObjIds :
        obj[o].total_size > 0
        => /\ obj[o].downloaded <= obj[o].total_size
           /\ (obj[o].status = "completed" => obj[o].downloaded = obj[o].total_size)

\* C20: when _post_download has ended for a completed job, every action that
\* was switched on has run, and the status is still completed
C20_AllActionsRun ==
    (post.pc \in {"done", "raised"} /\ post.status = "completed")
    => post.enabled \subseteq post.ran

\* C21: stop_download(uid) sets the status to cancelled when the uid is in d_map
\* with an active or pending status and changes nothing otherwise; it leaves
\* d_map and the pending queue as they are
C21_StopCancelsActiveOrPending ==
    [][(gui'.n = gui.n + 1 /\ gui'.op = "stop_download")
       => LET u == gui'.uid
          IN  /\ d_map' = d_map
              /\ pending_q' = pending_q
              /\ IF /\ d_map[u] # NoObj
                    /\ obj[d_map[u]].status \in {"downloading", "refreshing_url", "pending"}
                 THEN obj' = [obj EXCEPT ![d_map[u]].status = "cancelled"]
                 ELSE obj' = obj]_vars

\* C21 witness: stop_download has cancelled a pending job, which is still in
\* d_map and in the pending queue
C21_Witness ==
    /\ gui.op = "stop_download" /\ gui.pc = "idle"
    /\ d_map[gui.uid] # NoObj
    /\ obj[d_map[gui.uid]].status = "cancelled"
    /\ \E i \in 1 .. Len(pending_q) : pending_q[i] = d_map[gui.uid]

\* in this step the scheduled trigger hands object o to download()
HandedOver(o) ==
    \E k \in Calls :
        /\ thr[k].pc = "idle" /\ thr'[k].pc = "copy"
        /\ thr'[k].by = "sched" /\ thr'[k].src = o

\* C22: the scheduled trigger hands a job to download() only while it is a
\* d_map record with status scheduled and a timestamp at or before the current
\* time, and it hands a record over once
C22_ScheduledFiredOnce ==
    /\ [](\A o \in ObjIds :
            Cardinality({c \in Calls : thr[c].by = "sched" /\ thr[c].src = o}) <= 1)
    /\ [][\A o \in ObjIds :
            HandedOver(o)
            => /\ obj[o].uid # NoUid /\ d_map[obj[o].uid] = o
               /\ obj[o].status = "scheduled"
               /\ obj[o].sched # NoSched /\ obj[o].sched <= now]_vars

\* C23 (as stated): a job with status scheduled has a timestamp, in every state; when
\* schedule_cancel returns for a job that was scheduled, its status is
\* cancelled and its timestamp is cleared
C23_ScheduledHasTimestamp ==
    /\ [](\A o \in ObjIds : obj[o].status = "scheduled" => obj[o].sched # NoSched)
    /\ [][(gui.pc = "cancel_sched" /\ gui'.pc = "idle")
          => /\ obj'[gui.d].status = "cancelled"
             /\ obj'[gui.d].sched = NoSched]_vars

\* C23 (amended): a job with status scheduled has a timestamp, in every state;
\* schedule_start sets the timestamp before the status; schedule_cancel sets
\* the status to cancelled before it clears the timestamp, and when it returns
\* the job is not scheduled and has no timestamp
C23_CancelClearsSchedule ==
    /\ [](\A o \in ObjIds : obj[o].status = "scheduled" => obj[o].sched # NoSched)
    /\ [][/\ (gui.pc = "idle" /\ gui'.pc = "start_status")
             => obj'[gui'.d].sched # NoSched
          /\ (gui.pc = "idle" /\ gui'.pc = "cancel_sched")
             => obj'[gui'.d].status = "cancelled"
          /\ (gui.pc = "cancel_sched" /\ gui'.pc = "idle")
             => /\ obj'[gui.d].status # "scheduled"
                /\ obj'[gui.d].sched = NoSched]_vars

\* C23 witness: schedule_cancel has returned for a job that was scheduled
\* while its download() call was running
C23_Witness ==
    /\ gui.op = "schedule_cancel" /\ gui.pc = "idle" /\ gui.d # NoObj
    /\ obj[gui.d].status = "cancelled" /\ obj[gui.d].sched = NoSched
    /\ \E c \in Calls : CallObj(c) = gui.d /\ thr[c].attempts >= 1

\* in this step the drain loop pops object o from the pending queue
Popped(o) ==
    /\ pending_q # <<>> /\ Head(pending_q) = o
    /\ pending_q' = Tail(pending_q)

\* C24: the drain loop hands a popped job to download() only if its status is
\* pending at the pop; a popped job of another status is dropped: no call is
\* made for it and no status changes
C24_DrainStartsOnlyPending ==
    [][\A o \in ObjIds :
          Popped(o)
          => IF obj[o].status = "pending"
             THEN \E k \in Calls :
                     /\ thr[k].pc = "idle" /\ thr'[k].pc = "copy"
                     /\ thr'[k].by = "drain" /\ thr'[k].src = o
             ELSE thr' = thr /\ obj' = obj /\ d_map' = d_map]_vars

\* C24 witness: a job cancelled while queued has been popped and dropped
C24_Witness ==
    \E c \in Calls :
        /\ thr[c].queued /\ obj[CallObj(c)].status = "cancelled"
        /\ gui.op = "stop_download" /\ d_map[gui.uid] = CallObj(c)
        /\ pending_q = <<>> /\ drain = "count"
        /\ \A k \in Calls : thr[k].src # CallObj(c)

C25_OneTotalSpeedPerFlush ==
    [][(flush.pc = "drain" /\ flush'.pc = "size") => view'.total_speed = 1]_vars

\* C26: the update emitted for a uid of d_map carries the keys progress, speed
\* and eta exactly when the merged event carries the key downloaded, whatever
\* its value
C26_DerivedFieldsWithDownloaded ==
    [][(flush.pc = "drain" /\ flush'.pc = "size")
       => \A u \in ViewUids :
             (d_map[u] # NoObj /\ view'.updates[u] = 1)
             => (view'.extra[u] <=> view'.emitted[u]["downloaded"] # Absent)]_vars

\* C27: a submission surfaces a user-visible failure exactly once when its
\* retry bound is exhausted with status error, and at no other moment, whether
\* it is silent or not
C27_FailureSurfacedOnce ==
    \A c \in Calls :
        /\ thr[c].popups <= 1
        /\ (Exhausted(c) => thr[c].popups = 1)
        /\ (thr[c].popups = 1 => Exhausted(c))

First(u) == CHOOSE i \in 1 .. Len(observer_q) :
                /\ observer_q[i].uid = u
                /\ \A j \in 1 .. (i - 1) : observer_q[j].uid # u

\* C30: a flush emits its updates, one per uid of the window, in the order in
\* which the uids were first dequeued
C30_FirstSeenOrder ==
    [][(flush.pc = "drain" /\ flush'.pc = "size")
       => LET order == view'.order
              window == {observer_q[i].uid : i \in 1 .. flush.n} \ {NoUid}
          IN  /\ {order[i] : i \in 1 .. Len(order)} = window
              /\ Len(order) = Cardinality(window)
              /\ \A i, j \in 1 .. Len(order) :
                    i < j => First(order[i]) < First(order[j])]_vars

\* C30 witness: a window with two events of the second uid and one of the
\* first has been flushed, the second uid seen first and emitted first
C30_Witness ==
    /\ flush.pc = "size"
    /\ view.order = <<2, 1>>
    /\ view.drained[2] = 2 /\ view.drained[1] = 1

\* C31: when the drain loop goes to sleep after a wake-up, either it has
\* handed a job to download() for every slot that was free, or no pending job
\* is left in the queue
C31_DrainFillsFreeSlots ==
    [][(drain = "get" /\ drain' = "count")
       => \/ \E k \in Calls : thr[k].pc = "idle" /\ thr'[k].pc = "copy"
          \/ ActiveDownloads' >= config.max_concurrent_downloads
          \/ \A i \in 1 .. Len(pending_q') : obj'[pending_q'[i]].status # "pending"]_vars

\* object o is the source of a download() call that has not yet decided to
\* start or queue it
Held(o) ==
    \E c \in Calls :
        /\ thr[c].src = o \/ CallObj(c) = o
        /\ thr[c].pc \in {"copy", "checks", "register", "admit"}

\* C32: every d_map record with status pending is in the pending queue or is
\* held by a download() call that is on its way to start or queue it
C32_NoPendingJobLost ==
    \A o \in DMapValues :
        obj[o].status = "pending"
        => \/ \E i \in 1 .. Len(pending_q) : pending_q[i] = o
           \/ Held(o)

\* C33: the watchdog fires the on-completion action only when d_map holds at
\* least one job and every job of d_map is completed
C33_FiresOnlyForCompletedStore ==
    [][(watchdog'.fired # watchdog.fired)
       => (DMapValues # {} /\ AllCompleted)]_vars

\* C34: a download() call runs the post-completion actions and the completion
\* notification only after an attempt of its own; a download_later call and a
\* call that queued its job never run them
C34_PostOnlyAfterOwnAttempt ==
    \A c \in Calls :
        /\ thr[c].posted => thr[c].attempts >= 1
        /\ (thr[c].later \/ thr[c].queued) => ~thr[c].posted

\* C35: download() leaves the status, downloaded count and uid of the object it
\* was given as they are, and while the engine of a call is live the record
\* d_map holds for the uid is the copy that engine mutates, so that
\* stop_download(uid) cancels it
C35_StopReachesExecutedCopy ==
    /\ [](\A c \in Calls :
            thr[c].pc \in EnginePcs
            => d_map[obj[CallObj(c)].uid] \in {CallObj(c), NoObj})
    /\ [][\A c \in Calls :
            (thr[c].pc # thr'[c].pc /\ thr[c].src \in 1 .. FfmpegItem)
            => /\ obj'[thr[c].src].status = obj[thr[c].src].status
               /\ obj'[thr[c].src].downloaded = obj[thr[c].src].downloaded
               /\ obj'[thr[c].src].uid = obj[thr[c].src].uid]_vars

C37_QuitStopsEverything ==
    /\ [](config.shutdown
           => \A o \in DMapValues : obj[o].status \notin ActiveStates \cup {"pending"})
    /\ [][(config.shutdown /\ watchdog.pc = "any" /\ watchdog' # watchdog)
           => (watchdog'.pc = "exit" /\ watchdog'.fired = watchdog.fired)]_vars
    /\ [][(~config.shutdown /\ config'.shutdown)
           => \A o \in ObjIds :
                 obj[o].status \in {"scheduled", "completed", "error", "cancelled"}
                 => obj'[o] = obj[o]]_vars

\* C38: schedule_start changes nothing for an unknown job or a target in the
\* past, stores a target that is not before the time of the call, and never
\* gives the status scheduled to a job whose engine thread is running
C38_ScheduleStartGuards ==
    /\ [][\A u \in Uids :
             (gui.pc = "idle" /\ gui'.op = "schedule_start" /\ gui'.uid = u
                 /\ gui'.n = gui.n + 1)
             => /\ gui'.pc = "idle" => obj' = obj
                /\ gui'.pc = "start_status"
                   => (d_map[u] # NoObj /\ obj'[d_map[u]].sched >= now)]_vars
    /\ [][(gui.pc = "start_status" /\ gui'.pc = "idle")
           => ~ \E c \in Calls : thr[c].pc = "brain_run" /\ CallObj(c) = gui.d]_vars

\* C39: a flush takes the events counted by qsize() off the queue and leaves
\* the later ones; what it emits for a uid comes from the events it took and
\* from no earlier window; events without a uid are taken and emit nothing;
\* an event put while the flush drains is not counted into it
C39_EventsConsumedOnce ==
    /\ [][(flush.pc = "drain" /\ flush'.pc = "size")
           => /\ observer_q' = SubSeq(observer_q, flush.n + 1, Len(observer_q))
              /\ \A u \in ViewUids :
                    /\ view'.drained[u]
                          = Cardinality({i \in 1 .. flush.n : observer_q[i].uid = u})
                    /\ \A f \in Fields :
                          view'.emitted[u][f] # Absent
                          => \E i \in 1 .. flush.n :
                                /\ observer_q[i].uid = u
                                /\ observer_q[i].kw[f] = view'.emitted[u][f]
              /\ view'.total_speed
                    = Cardinality({observer_q[i].uid : i \in 1 .. flush.n} \ {NoUid})]_vars
    /\ [][(flush.pc = "drain" /\ Len(observer_q') > Len(observer_q))
           => (flush' = flush
               /\ SubSeq(observer_q', 1, Len(observer_q)) = observer_q)]_vars

\* C39 witness: all events were given; the last flush took an event of a uid,
\* an event without uid has been taken without an update, and an event given
\* after the count is still in the queue
C39_Witness ==
    /\ flush.pc = "size"
    /\ sent.count = MaxEvents
    /\ Len(observer_q) = 1 /\ observer_q[1].uid # NoUid
    /\ view.drained[1] = 1 /\ view.updates[1] = 1
    /\ view.drained[2] = 0 /\ view.total_speed = 1
    /\ view.shown[2] = NoKw /\ sent.last[2] = NoKw /\ observer_q[1].uid = 1

\* C40: download_simulator starts again from 0 when the item is already full,
\* adds the same positive step in every iteration, ends with status completed
\* or cancelled, and ends with status cancelled when the job was cancelled
\* while it ran
C40_SimulatorEnds ==
    [][\A c \in Calls :
          LET d == obj[CallObj(c)]
              e == obj'[CallObj(c)]
          IN  /\ (thr[c].pc = "begin" /\ thr'[c].pc = "sim_add")
                 => e.downloaded = IF d.downloaded >= d.total_size THEN 0 ELSE d.downloaded
              /\ (thr[c].pc = "sim_add" /\ thr'[c].pc = "sim_test")
                 => (SimStep > 0 /\ e.downloaded = d.downloaded + SimStep)
              /\ (thr[c].pc \in {"sim_test", "sim_clamp"} /\ thr'[c].pc = "joined")
                 => e.status \in {"completed", "cancelled"}
              /\ (thr[c].pc \in {"sim_add", "sim_test"} /\ d.status = "cancelled")
                 => e.status = "cancelled"]_vars

====
